---- MODULE Spec2Model ----
(***************************************************************************)
(* A model of the multi-strategy retrieval pipeline of RAG-chatbot:        *)
(* core/reranker.py, core/hyde_retrieval.py, core/enhanced_rag_chain.py,   *)
(* the embedding and store wrappers of core/vector_store_compatible.py     *)
(* and the mode dispatch of app.py / app_main.py.                          *)
(*                                                                         *)
(* Texts are sequences of one-character strings, so that len(), lower(),   *)
(* split(), re.findall(r'\w+') and the `in` substring test are computed    *)
(* the way Python computes them.  Floating-point scores are modelled as    *)
(* exact rationals [n, d] with d > 0.                                      *)
(***************************************************************************)
EXTENDS Integers, Sequences, FiniteSets, TLC

VARIABLES
    op,                  \* the operation under way
    pc,                  \* position inside the operation
    TOP_K,               \* settings.TOP_K
    store,               \* the chunks held by the vector store, listed
                         \* nearest-first for the question; the id of a
                         \* chunk is its place in this list
    question,            \* the question / query argument
    arg_k,               \* the top_k / k argument of a direct call
    arg_docs,            \* the documents argument of a direct call
    arg_answer,          \* the answer argument of a direct call
    arg_method,          \* the retrieval_method argument of a direct call
    hyde_k,              \* k inside hyde_retrieve
    hypothetical_answer, \* result of generate_hypothetical_answer
    hyde_failed,         \* the HyDE generation call raised
    hyde_results,        \* result of the hypothetical-answer search
    question_results,    \* result of the original-question search
    candidate_docs,      \* candidates handed to the ranker
    ranked_docs,         \* (doc, score) pairs returned by the ranker
    source_docs,         \* chunks the answer is grounded on
    citations,           \* citations built so far
    calls,               \* external calls issued so far, in order
    raised,              \* the exception raised inside the try block, if any
    escaped,             \* an exception left the operation
    result,              \* the value returned
    response,            \* content of the answer generation's reply, if any
    retrieval_mode,      \* the mode name the app dispatches on
    results,             \* compare_methods: (method_name, result) pairs so far
    comparison,          \* compare_methods: the two rankings
    embeddings,          \* embed_documents: the vectors collected so far
    batch_i,             \* embed_documents: index i of the batch loop
    fallback_j,          \* embed_documents: texts of the failed batch done
    persisted,           \* the (text, vector) pairs the store was given
    semantic_scores,     \* advanced_rerank: reply and score of each scoring call
    other,               \* the locals of a second request that is not running
    file,                \* process_document: the file at file_path
    cache,               \* the cache directory: file hash -> pickled chunks
    processed            \* what each process_document call returned

vars == <<op, pc, TOP_K, store, question, arg_k, arg_docs, arg_answer,
          arg_method, hyde_k, hypothetical_answer, hyde_failed, hyde_results,
          question_results, candidate_docs, ranked_docs, source_docs,
          citations, calls, raised, escaped, result, response,
          retrieval_mode, results, comparison, embeddings, batch_i,
          fallback_j, persisted, semantic_scores, other, file, cache,
          processed>>

-----------------------------------------------------------------------------
(* Bounds of the model *)

MaxStore == 3
MaxTopK == 2
MaxDocs == 3
MaxArgK == 3
MaxResponseTime == 1
MaxTexts == 11
MaxCiteStore == 2
MaxScoredDocs == 2
MaxMergeStore == 5
MaxChunks == 2
MaxCalls == 3
MaxClock == 1

-----------------------------------------------------------------------------
(* Characters and Python's string operations *)

UpperLetters == {"A", "B", "C", "D", "E", "F", "G", "H", "I", "J", "K", "L", "M",
                 "N", "O", "P", "Q", "R", "S", "T", "U", "V", "W", "X", "Y", "Z"}

LowerSeq == <<"a", "b", "c", "d", "e", "f", "g", "h", "i", "j", "k", "l", "m",
              "n", "o", "p", "q", "r", "s", "t", "u", "v", "w", "x", "y", "z">>

UpperSeq == <<"A", "B", "C", "D", "E", "F", "G", "H", "I", "J", "K", "L", "M",
              "N", "O", "P", "Q", "R", "S", "T", "U", "V", "W", "X", "Y", "Z">>

UpperToLower ==
    [c \in UpperLetters |-> LowerSeq[CHOOSE i \in 1..Len(UpperSeq) : UpperSeq[i] = c]]

LowerLetters == {"a", "b", "c", "d", "e", "f", "g", "h", "i", "j", "k", "l", "m",
                 "n", "o", "p", "q", "r", "s", "t", "u", "v", "w", "x", "y", "z"}

Digits == {"0", "1", "2", "3", "4", "5", "6", "7", "8", "9"}

\* the characters matched by \w in the texts of the model
WordChars == LowerLetters \cup UpperLetters \cup Digits \cup {"_"}

Whitespace == {" ", "\t", "\n"}

Punctuation == {"?", ".", ",", ":", "'"}

Alphabet == WordChars \cup Whitespace \cup Punctuation

\* str.lower()
lower(t) == [i \in 1..Len(t) |->
               IF t[i] \in UpperLetters THEN UpperToLower[t[i]] ELSE t[i]]

\* maximal runs of characters of tokChars, left to right
Runs(t, tokChars) ==
    LET starts == {i \in 1..Len(t) :
                      t[i] \in tokChars /\ (i = 1 \/ t[i - 1] \notin tokChars)}
        start(j) == CHOOSE b \in starts : Cardinality({x \in starts : x < b}) = j - 1
        end(b) == CHOOSE e \in b..Len(t) :
                      /\ \A i \in b..e : t[i] \in tokChars
                      /\ e = Len(t) \/ t[e + 1] \notin tokChars
    IN  [j \in 1..Cardinality(starts) |-> SubSeq(t, start(j), end(start(j)))]

\* str.split() without arguments: split on runs of whitespace, no empty items
split(t) == Runs(t, Alphabet \ Whitespace)

\* re.findall(r'\w+', t)
findall_w(t) == Runs(t, WordChars)

\* set(seq)
set(s) == {s[i] : i \in 1..Len(s)}

\* `w in t` for strings
contains(t, w) ==
    \E i \in 0..(Len(t) - Len(w)) : SubSeq(t, i + 1, i + Len(w)) = w

\* ord(c) stand-in: the position of the character in a fixed order
CharOrder == <<" ", "\t", "\n", "'", ",", ".", ":", "?", "0", "1", "2", "3", "4",
               "5", "6", "7", "8", "9", "_">> \o UpperSeq \o LowerSeq

CharCode(c) == CHOOSE i \in 1..Len(CharOrder) : CharOrder[i] = c

\* hash(str): a multiplicative hash over the characters, left to right.
\* Equal strings hash equally; distinct texts of the model hash differently,
\* as 64-bit string hashes do in practice.
RECURSIVE HashFrom(_, _, _)
HashFrom(t, i, h) ==
    IF i > Len(t) THEN h
    ELSE HashFrom(t, i + 1, (h * 131 + CharCode(t[i])) % 1000003)

\* the same hash taken sixteen characters at a time, which keeps the
\* evaluation of a long text shallow
RECURSIVE HashBlocks(_, _, _)
HashBlocks(t, i, h) ==
    IF i > Len(t) THEN h
    ELSE LET last == IF i + 15 <= Len(t) THEN i + 15 ELSE Len(t)
             next_h == HashFrom(SubSeq(t, i, last), 1, h)
         IN  IF next_h < 0 THEN next_h ELSE HashBlocks(t, last + 1, next_h)

hash(t) == HashBlocks(t, 1, 7)

-----------------------------------------------------------------------------
(* Exact rationals standing for Python floats *)

RECURSIVE Gcd(_, _)
Gcd(a, b) == IF b = 0 THEN a ELSE Gcd(b, a % b)

Abs(a) == IF a < 0 THEN -a ELSE a

\* the rational n/d in lowest terms, d > 0
Rat(n, d) ==
    LET g == Gcd(Abs(n), Abs(d))
        s == IF d < 0 THEN -1 ELSE 1
    IN  [n |-> (s * n) \div g, d |-> (s * d) \div g]

RAdd(x, y) == Rat(x.n * y.d + y.n * x.d, x.d * y.d)
RMul(x, y) == Rat(x.n * y.n, x.d * y.d)
RDiv(x, y) == Rat(x.n * y.d, x.d * y.n)
RLe(x, y) == x.n * y.d <= y.n * x.d
RLt(x, y) == x.n * y.d < y.n * x.d
RMin(x, y) == IF RLe(x, y) THEN x ELSE y
RMax(x, y) == IF RLe(y, x) THEN x ELSE y
RInt(n) == Rat(n, 1)

-----------------------------------------------------------------------------
(* Python values *)

\* an optional integer argument: None is <<>>, the integer n is <<n>>
None == <<>>
Some(n) == <<n>>

\* truthiness of an optional integer: None and 0 are falsy
Truthy(v) == v # None /\ v[1] # 0

\* `v or default`
OrElse(v, default) == IF Truthy(v) THEN v[1] ELSE default

Min(a, b) == IF a <= b THEN a ELSE b
Max(a, b) == IF a >= b THEN a ELSE b

\* seq[:k]
SliceTo(seq, k) ==
    IF k >= 0 THEN SubSeq(seq, 1, Min(k, Len(seq)))
    ELSE SubSeq(seq, 1, Max(Len(seq) + k, 0))

\* a langchain Document; id tells apart chunks of equal content
Document(id, page_content) == [id |-> id, page_content |-> page_content]

-----------------------------------------------------------------------------
(* The texts the model draws its inputs from *)

Q_WhatIsRag == <<"W", "h", "a", "t", " ", "i", "s", " ", "R", "A", "G", "?">>
Q_Cats == <<"c", "a", "t", "s">>
T_RagUpper == <<"R", "A", "G", " ", "i", "s", " ", "r", "e", "t", "r", "i", "e", "v", "a", "l">>
T_RagLower == <<"r", "a", "g", " ", "i", "s", " ", "r", "e", "t", "r", "i", "e", "v", "a", "l">>
T_Cats == <<"c", "a", "t", "s">>
T_Empty == <<>>
A_Rag == <<"r", "a", "g", " ", "i", "s", " ", "w", "h", "a", "t">>
H_Retrieval == <<"r", "e", "t", "r", "i", "e", "v", "a", "l", " ", "i", "s", " ", "R", "A", "G">>

Questions == {Q_WhatIsRag, Q_Cats}
Contents == {T_RagUpper, T_RagLower, T_Cats}
Answers == {A_Rag, T_Empty}
Hypotheticals == {H_Retrieval}

\* every list of at most n documents with contents of Contents, ids 1..Len
DocLists(n) ==
    UNION {{[i \in 1..m |-> Document(i, c[i])] : c \in [1..m -> Contents]} : m \in 0..n}

-----------------------------------------------------------------------------
(* core/reranker.py *)

\* the overlap taken without lower()
calculate_lexical_similarity_cased(query, document) ==
    LET query_words == set(findall_w(query))
        doc_words == set(findall_w(document))
    IN  IF query_words = {} \/ doc_words = {}
        THEN RInt(0)
        ELSE Rat(Cardinality(query_words \cap doc_words),
                 Cardinality(query_words \cup doc_words))

calculate_lexical_similarity(query, document) ==
    LET query_words == set(findall_w(lower(query)))
        doc_words == set(findall_w(lower(document)))
    IN  IF query_words = {} \/ doc_words = {}
        THEN RInt(0)
        ELSE Rat(Cardinality(query_words \cap doc_words),
                 Cardinality(query_words \cup doc_words))

\* lexical_score * 0.8 + length_factor * 0.2
final_score(query, doc) ==
    LET lexical_score == calculate_lexical_similarity(query, doc.page_content)
        length_factor == RMin(Rat(Len(doc.page_content), 100), RInt(1))
    IN  RAdd(RMul(lexical_score, Rat(8, 10)), RMul(length_factor, Rat(2, 10)))

\* a sort that puts an item before the items of equal score already placed
RECURSIVE sort_reverse_unstable(_)
sort_reverse_unstable(scored) ==
    IF scored = <<>> THEN <<>>
    ELSE LET n == Len(scored)
             x == scored[n]
             acc == sort_reverse_unstable(SubSeq(scored, 1, n - 1))
             p == Cardinality({i \in 1..Len(acc) : RLt(x[2], acc[i][2])})
         IN  SubSeq(acc, 1, p) \o <<x>> \o SubSeq(acc, p + 1, Len(acc))

\* list.sort(key=lambda x: x[1], reverse=True): non-increasing by score,
\* stable (items of equal score keep their order)
RECURSIVE sort_reverse(_)
sort_reverse(scored) ==
    IF scored = <<>> THEN <<>>
    ELSE LET n == Len(scored)
             x == scored[n]
             acc == sort_reverse(SubSeq(scored, 1, n - 1))
             p == Cardinality({i \in 1..Len(acc) : RLe(x[2], acc[i][2])})
         IN  SubSeq(acc, 1, p) \o <<x>> \o SubSeq(acc, p + 1, Len(acc))

simple_rerank(query, documents, top_k) ==
    LET k == OrElse(top_k, Len(documents))
        scored_docs == [i \in 1..Len(documents) |->
                           <<documents[i], final_score(query, documents[i])>>]
    IN  SliceTo(sort_reverse(scored_docs), k)

-----------------------------------------------------------------------------
(* core/enhanced_rag_chain.py: the confidence estimate *)

\* sum of f[i] over i in 1..n, f a sequence of rationals
RECURSIVE RSum(_, _)
RSum(f, n) == IF n = 0 THEN RInt(0) ELSE RAdd(RSum(f, n - 1), f[n])

\* the total returned as it is
clamp_confidence_missing(total_confidence) == total_confidence

\* min(max(total_confidence, 0.1), 0.95)
clamp_confidence(total_confidence) ==
    RMin(RMax(total_confidence, Rat(1, 10)), Rat(95, 100))

\* 0.1 if retrieval_method == "hyde" else 0.0
method_bonus(retrieval_method) ==
    IF retrieval_method = "hyde" THEN Rat(1, 10) ELSE RInt(0)

\* the Jaccard overlap of the question's and one chunk's whitespace tokens
overlap(question_words, doc) ==
    LET doc_words == set(split(lower(doc.page_content)))
    IN  IF question_words # {} /\ doc_words # {}
        THEN Rat(Cardinality(question_words \cap doc_words),
                 Cardinality(question_words \cup doc_words))
        ELSE RInt(0)

\* the number of question words longer than 2 characters found in the answer
keyword_hits(question_words, answer) ==
    Cardinality({word \in question_words :
                    Len(word) > 2 /\ contains(lower(answer), word)})

\* min(keyword_score / max(len(question_words), 1), 1.0) * 0.1
keyword_score(question_, answer) ==
    LET question_words == set(split(lower(question_)))
    IN  RMul(RMin(Rat(keyword_hits(question_words, answer),
                      Max(Cardinality(question_words), 1)), RInt(1)),
             Rat(1, 10))

\* answer is a str; a None answer is the caller's business (answer.split())
calculate_enhanced_confidence(source_docs_, question_, answer, retrieval_method) ==
    IF source_docs_ = <<>> THEN Rat(1, 10)
    ELSE
    LET n == Len(source_docs_)
        doc_score == RMul(RMin(Rat(n, TOP_K), RInt(1)), Rat(3, 10))
        question_words == set(split(lower(question_)))
        overlaps == [i \in 1..n |-> overlap(question_words, source_docs_[i])]
        relevance_score ==
            RMul(RMin(RDiv(RSum(overlaps, n), RInt(n)), RInt(1)), Rat(3, 10))
        answer_length_score ==
            RMul(RMin(Rat(Len(split(answer)), 50), RInt(1)), Rat(2, 10))
        total_confidence ==
            RAdd(RAdd(RAdd(RAdd(doc_score, relevance_score), answer_length_score),
                      keyword_score(question_, answer)),
                 method_bonus(retrieval_method))
    IN  clamp_confidence(total_confidence)

-----------------------------------------------------------------------------
(* LLM replies and exceptions *)

\* message.content of a chat completion: a str or None
Text(t) == [none |-> FALSE, text |-> t]
NoneText == [none |-> TRUE, text |-> <<>>]

\* str(e) of the exceptions the collaborators raise
E_Store == <<"s", "t", "o", "r", "e", " ", "d", "o", "w", "n">>
E_Generation == <<"t", "i", "m", "e", "o", "u", "t">>
E_NoneSplit == <<"'", "N", "o", "n", "e", "T", "y", "p", "e", "'", " ", "o", "b", "j", "e", "c", "t", " ", "h", "a", "s", " ", "n", "o", " ", "a", "t", "t", "r", "i", "b", "u", "t", "e", " ", "'", "s", "p", "l", "i", "t", "'">>
E_NoneQuery == <<"i", "n", "p", "u", "t", " ", "i", "s", " ", "N", "o", "n", "e">>

\* the fixed head of the failure answer ("sorry, an error occurred while
\* answering the question:" in the source's language)
ApologyPrefix == <<"s", "o", "r", "r", "y", ",", " ", "e", "r", "r", "o", "r", ":">>

-----------------------------------------------------------------------------
(* core/vector_store_compatible.py: the search wrapper over the vector store *)

\* the chunks of the store as documents
StoreDoc(i) == Document(i, store[i])

\* every nearest-first order the store may have for a query
Orders ==
    {o \in [1..Len(store) -> 1..Len(store)] :
        \A i, j \in 1..Len(store) : o[i] = o[j] => i = j}

\* the order for a query.  The store does not change during a call, so the
\* question is always answered in the same order, which is the order the
\* chunks are listed in; any other query may have any order.
OrdersFor(query) ==
    IF query = question THEN {[i \in 1..Len(store) |-> i]} ELSE Orders

\* the store returning more than it was asked for
vectorstore_search_all(order, k) ==
    [i \in 1..Len(order) |-> StoreDoc(order[i])]

\* self.vectorstore.similarity_search(query, k=k): the k nearest chunks, all of
\* them when the store holds fewer than k
vectorstore_search(order, k) ==
    [i \in 1..Min(k, Len(order)) |-> StoreDoc(order[i])]

\* VectorStoreManager.similarity_search, given the store's order for the query
similarity_search(order, k) ==
    vectorstore_search(order, OrElse(k, TOP_K))

-----------------------------------------------------------------------------
(* core/hyde_retrieval.py *)

\* the reply that generate_hypothetical_answer returns when the call raises
hyde_fallback_empty(question_) == Text(<<>>)

\* except Exception: return question
hyde_fallback(question_) == Text(question_)

\* the loop without its test of seen_content
RECURSIVE dedup_loop_keep_all(_, _, _, _, _)
dedup_loop_keep_all(all_results, i, unique_results, seen_content, k) ==
    IF i > Len(all_results) THEN unique_results
    ELSE LET appended == Append(unique_results, all_results[i])
         IN  IF Len(appended) >= k THEN appended
             ELSE dedup_loop_keep_all(all_results, i + 1, appended, seen_content, k)

\* for doc in all_results: ... with its early break
RECURSIVE dedup_loop(_, _, _, _, _)
dedup_loop(all_results, i, unique_results, seen_content, k) ==
    IF i > Len(all_results) THEN unique_results
    ELSE LET content_hash == hash(all_results[i].page_content)
         IN  IF content_hash \notin seen_content
             THEN LET appended == Append(unique_results, all_results[i])
                  IN  IF Len(appended) >= k
                      THEN appended
                      ELSE dedup_loop(all_results, i + 1, appended,
                                      seen_content \cup {content_hash}, k)
             ELSE dedup_loop(all_results, i + 1, unique_results, seen_content, k)

\* the question's results put first
merge_results_question_first(hyde_results_, question_results_) ==
    question_results_ \o hyde_results_

\* all_results = hyde_results + question_results
merge_results(hyde_results_, question_results_) ==
    hyde_results_ \o question_results_

\* every unique result returned, however many
merge_and_dedup_unbounded(hyde_results_, question_results_, k) ==
    dedup_loop(merge_results(hyde_results_, question_results_), 1, <<>>, {},
               Len(hyde_results_) + Len(question_results_) + 1)

\* the hypothetical-answer search made with k and not with 2k
merge_and_dedup_hyde_cut(hyde_results_, question_results_, k) ==
    SliceTo(dedup_loop(merge_results(SliceTo(hyde_results_, k), question_results_),
                       1, <<>>, {}, k), k)

\* step 4 and the return of hyde_retrieve
merge_and_dedup(hyde_results_, question_results_, k) ==
    SliceTo(dedup_loop(merge_results(hyde_results_, question_results_),
                       1, <<>>, {}, k), k)

-----------------------------------------------------------------------------
(* core/enhanced_rag_chain.py: the four ask_* methods *)

AskOps == {"ask_basic", "ask_hyde", "ask_rerank", "ask_enhanced"}

\* ask_enhanced written with the tag of ask_rerank
MethodTag_copied(o) ==
    CASE o = "ask_basic" -> "basic"
      [] o = "ask_hyde" -> "hyde"
      [] o = "ask_rerank" -> "rerank"
      [] o = "ask_enhanced" -> "rerank"

\* the retrieval_method tag each method writes
MethodTag(o) ==
    CASE o = "ask_basic" -> "basic"
      [] o = "ask_hyde" -> "hyde"
      [] o = "ask_rerank" -> "rerank"
      [] o = "ask_enhanced" -> "hyde+rerank"

MethodTags == {MethodTag(o) : o \in AskOps}

\* the k a method without ranking asks its retriever for
retrieval_k_same(o) == TOP_K

\* the k each method asks its retriever for
retrieval_k(o) ==
    IF o \in {"ask_rerank", "ask_enhanced"} THEN TOP_K * 2 ELSE TOP_K

\* the ranker returning every candidate
rank_candidates_untruncated(o, candidates) ==
    IF o \in {"ask_rerank", "ask_enhanced"}
    THEN simple_rerank(question, candidates, None)
    ELSE [i \in 1..Len(candidates) |-> <<candidates[i], RInt(0)>>]

\* reranker.simple_rerank(question, candidate_docs, top_k=settings.TOP_K) in
\* ask_rerank and ask_enhanced; ask_basic and ask_hyde use the candidates as
\* retrieved (paired here with a score of 0 that nothing reads)
rank_candidates(o, candidates) ==
    IF o \in {"ask_rerank", "ask_enhanced"}
    THEN simple_rerank(question, candidates, Some(TOP_K))
    ELSE [i \in 1..Len(candidates) |-> <<candidates[i], RInt(0)>>]

\* [doc for doc, score in ranked_docs]
docs_of(ranked) == [i \in 1..Len(ranked) |-> ranked[i][1]]

\* the cut made from 200 characters on
citation_content_from_200(page_content) ==
    IF Len(page_content) >= 200
    THEN SliceTo(page_content, 200) \o <<".", ".", ".">>
    ELSE page_content

\* page_content[:200] + "..." if len(page_content) > 200 else page_content
citation_content(page_content) ==
    IF Len(page_content) > 200
    THEN SliceTo(page_content, 200) \o <<".", ".", ".">>
    ELSE page_content

\* the citations loop (source and rerank_score are not modelled)
build_citations(docs, tag) ==
    [i \in 1..Len(docs) |->
        [chunk_id |-> i - 1,
         content |-> citation_content(docs[i].page_content),
         retrieval_method |-> tag]]

\* a failure answered like a weak answer
failure_result_floor(o, e) ==
    [escaped |-> FALSE,
     value |-> [question |-> question,
                answer |-> Text(ApologyPrefix \o e),
                citations |-> <<>>,
                confidence |-> Rat(1, 10),
                source_count |-> 0,
                retrieval_method |-> MethodTag(o)]]

\* except Exception as e: return {...}
failure_result(o, e) ==
    [escaped |-> FALSE,
     value |-> [question |-> question,
                answer |-> Text(ApologyPrefix \o e),
                citations |-> <<>>,
                confidence |-> RInt(0),
                source_count |-> 0,
                retrieval_method |-> MethodTag(o)]]

\* an empty retrieval answered like a failure
success_result_empty_fails(o, content) ==
    IF source_docs = <<>> \/ content.none
    THEN failure_result(o, E_NoneSplit)
    ELSE [escaped |-> FALSE,
          value |-> [question |-> question,
                     answer |-> content,
                     citations |-> citations,
                     confidence |-> calculate_enhanced_confidence(
                                        source_docs, question, content.text,
                                        MethodTag(o)),
                     source_count |-> Len(source_docs),
                     retrieval_method |-> MethodTag(o)]]

\* the return of the try block; answer.split() raises on a None answer once
\* source_docs is not empty
success_result(o, content) ==
    IF content.none /\ source_docs # <<>>
    THEN failure_result(o, E_NoneSplit)
    ELSE [escaped |-> FALSE,
          value |-> [question |-> question,
                     answer |-> content,
                     citations |-> citations,
                     confidence |-> calculate_enhanced_confidence(
                                        source_docs, question, content.text,
                                        MethodTag(o)),
                     source_count |-> Len(source_docs),
                     retrieval_method |-> MethodTag(o)]]

-----------------------------------------------------------------------------
(* The state machine of one ask_* call *)

\* settings.TOP_K when the environment does not set it
DefaultTopK == 5

\* every store of at most n chunks with contents of Contents
Stores(n) == UNION {[1..m -> Contents] : m \in 0..n}

\* an exception: where it was raised and its str()
Error(where, text) == [where |-> where, text |-> text]
NoError == Error("", <<>>)

HydeReplies == {Text(h) : h \in Hypotheticals} \cup {NoneText}
AnswerReplies == {Text(a) : a \in Answers} \cup {NoneText}

SearchCall(query, k) == [call |-> "similarity_search", query |-> query, k |-> k]
ChatCall(purpose) == [call |-> purpose, query |-> Text(question), k |-> 0]

LocalsInit ==
    /\ hyde_k = 0
    /\ hypothetical_answer = NoneText
    /\ hyde_failed = FALSE
    /\ hyde_results = <<>>
    /\ question_results = <<>>
    /\ candidate_docs = <<>>
    /\ ranked_docs = <<>>
    /\ source_docs = <<>>
    /\ citations = <<>>
    /\ calls = <<>>
    /\ raised = NoError
    /\ escaped = FALSE
    /\ result = <<>>
    /\ response = None

\* nothing of the app, of compare_methods or of the embedding wrapper is
\* under way
OuterInit ==
    /\ retrieval_mode = "enhanced"
    /\ results = <<>>
    /\ comparison = <<>>
    /\ embeddings = <<>>
    /\ batch_i = 0
    /\ fallback_j = 0
    /\ persisted = <<>>
    /\ semantic_scores = <<>>
    /\ other = <<>>
    /\ file = <<>>
    /\ cache = <<>>
    /\ processed = <<>>

ArgsInit ==
    /\ arg_k = None
    /\ arg_docs = <<>>
    /\ arg_answer = <<>>
    /\ arg_method = ""

Init ==
    /\ op \in AskOps
    /\ pc = "start"
    /\ TOP_K \in 1..MaxTopK
    /\ store \in Stores(MaxStore)
    /\ question \in Questions
    /\ ArgsInit
    /\ LocalsInit
    /\ OuterInit

outer == <<retrieval_mode, results, comparison, embeddings, batch_i,
           fallback_j, persisted, semantic_scores, other, file, cache,
           processed>>

config == <<op, TOP_K, store, question, arg_k, arg_docs, arg_answer,
            arg_method, outer>>

\* time.time() - start_time, in whole ticks
ResponseTimes == 0..MaxResponseTime

\* the operation returns r, after e was raised inside it (NoError if nothing
\* was); "response_time": time.time() - start_time is whatever the clock says
Return(r, e) ==
    /\ pc' = "returned"
    /\ \E t \in ResponseTimes : result' = ("response_time" :> t) @@ r.value
    /\ escaped' = r.escaped
    /\ raised' = e

\* e is raised inside the try block of the ask_* method
Raise(e) == Return(failure_result(op, e.text), e) /\ UNCHANGED response

\* the retrieved chunks are ranked (or not) and cited; generation comes next
Retrieved(retrieved) ==
    LET ranked == rank_candidates(op, retrieved)
    IN  /\ candidate_docs' = retrieved
        /\ ranked_docs' = ranked
        /\ source_docs' = docs_of(ranked)
        /\ citations' = build_citations(docs_of(ranked), MethodTag(op))
        /\ pc' = "generate"
        /\ UNCHANGED <<raised, escaped, result, response>>

\* ask_basic, ask_rerank: vector_store.similarity_search(question, k=...)
StoreSearch ==
    /\ pc = "start"
    /\ op \in {"ask_basic", "ask_rerank"}
    /\ calls' = Append(calls, SearchCall(Text(question), retrieval_k(op)))
    /\ \/ /\ Raise(Error("store", E_Store))
          /\ UNCHANGED <<candidate_docs, ranked_docs, source_docs, citations>>
       \/ \E order \in OrdersFor(question) :
             Retrieved(similarity_search(order, Some(retrieval_k(op))))
    /\ UNCHANGED <<config, hyde_k, hypothetical_answer, hyde_failed,
                   hyde_results, question_results>>

\* a failed HyDE expansion that ends the request
GenerateHypotheticalAnswer_raises ==
    /\ pc = "start"
    /\ op \in {"ask_hyde", "ask_enhanced"}
    /\ hyde_k' = OrElse(Some(retrieval_k(op)), TOP_K)
    /\ calls' = Append(calls, ChatCall("generate_hypothetical_answer"))
    /\ \/ /\ hyde_failed' = TRUE
          /\ hypothetical_answer' = hypothetical_answer
          /\ Raise(Error("generate_hypothetical_answer", E_Generation))
       \/ /\ hyde_failed' = FALSE
          /\ hypothetical_answer' \in HydeReplies
          /\ pc' = "hyde_search"
          /\ UNCHANGED <<raised, escaped, result, response>>
    /\ UNCHANGED <<config, hyde_results, question_results,
                   candidate_docs, ranked_docs, source_docs, citations>>

\* ask_hyde, ask_enhanced: hyde_retrieve(question, k=...) up to the return of
\* generate_hypothetical_answer
GenerateHypotheticalAnswer ==
    /\ pc = "start"
    /\ op \in {"ask_hyde", "ask_enhanced"}
    /\ hyde_k' = OrElse(Some(retrieval_k(op)), TOP_K)
    /\ calls' = Append(calls, ChatCall("generate_hypothetical_answer"))
    /\ \/ /\ hyde_failed' = TRUE
          /\ hypothetical_answer' = hyde_fallback(question)
       \/ /\ hyde_failed' = FALSE
          /\ hypothetical_answer' \in HydeReplies
    /\ pc' = "hyde_search"
    /\ UNCHANGED <<config, hyde_results, question_results,
                   candidate_docs, ranked_docs, source_docs, citations,
                   raised, escaped, result, response>>

\* hyde_retrieve: vector_store.similarity_search(hypothetical_answer, k=k*2);
\* a None query is refused by the embedding call
HydeSearch ==
    /\ pc = "hyde_search"
    /\ calls' = Append(calls, SearchCall(hypothetical_answer, hyde_k * 2))
    /\ \/ /\ Raise(Error("store", IF hypothetical_answer.none
                                   THEN E_NoneQuery ELSE E_Store))
          /\ UNCHANGED hyde_results
       \/ /\ ~hypothetical_answer.none
          /\ \E order \in OrdersFor(hypothetical_answer.text) :
                hyde_results' = similarity_search(order, Some(hyde_k * 2))
          /\ pc' = "question_search"
          /\ UNCHANGED <<raised, escaped, result, response>>
    /\ UNCHANGED <<config, hyde_k, hypothetical_answer, hyde_failed,
                   question_results, candidate_docs, ranked_docs, source_docs,
                   citations>>

\* hyde_retrieve: vector_store.similarity_search(question, k=k), the merge and
\* the deduplication; then the caller's ranking and citations
QuestionSearch ==
    /\ pc = "question_search"
    /\ calls' = Append(calls, SearchCall(Text(question), hyde_k))
    /\ \/ /\ Raise(Error("store", E_Store))
          /\ UNCHANGED <<question_results, candidate_docs, ranked_docs,
                         source_docs, citations>>
       \/ \E order \in OrdersFor(question) :
             LET found == similarity_search(order, Some(hyde_k))
             IN  /\ question_results' = found
                 /\ Retrieved(merge_and_dedup(hyde_results, found, hyde_k))
    /\ UNCHANGED <<config, hyde_k, hypothetical_answer, hyde_failed, hyde_results>>

\* an answer generation that is issued again after its first failure
GenerateAnswer_retried ==
    /\ pc = "generate"
    /\ calls' = Append(calls, ChatCall("generate_answer"))
    /\ \/ /\ \A c \in 1..Len(calls) : calls[c].call # "generate_answer"
          /\ UNCHANGED <<pc, raised, escaped, result, response>>
       \/ Raise(Error("generation", E_Generation))
       \/ \E content \in AnswerReplies :
             /\ response' = <<content>>
             /\ Return(success_result(op, content),
                       IF content.none /\ source_docs # <<>>
                       THEN Error("answer.split", E_NoneSplit) ELSE NoError)
    /\ UNCHANGED <<config, hyde_k, hypothetical_answer, hyde_failed,
                   hyde_results, question_results, candidate_docs, ranked_docs,
                   source_docs, citations>>

\* self.client.chat.completions.create(...) and the rest of the try block
GenerateAnswer ==
    /\ pc = "generate"
    /\ calls' = Append(calls, ChatCall("generate_answer"))
    /\ \/ Raise(Error("generation", E_Generation))
       \/ \E content \in AnswerReplies :
             /\ response' = <<content>>
             /\ Return(success_result(op, content),
                       IF content.none /\ source_docs # <<>>
                       THEN Error("answer.split", E_NoneSplit) ELSE NoError)
    /\ UNCHANGED <<config, hyde_k, hypothetical_answer, hyde_failed,
                   hyde_results, question_results, candidate_docs, ranked_docs,
                   source_docs, citations>>

Next ==
    \/ StoreSearch
    \/ GenerateHypotheticalAnswer
    \/ HydeSearch
    \/ QuestionSearch
    \/ GenerateAnswer

Spec == Init /\ [][Next]_vars

-----------------------------------------------------------------------------
(* app.py, app_main.py: the mode dispatch in front of the ask_* methods *)

\* the options of the mode selectbox
ModeNames == {"basic", "hyde", "rerank", "enhanced"}

\* a name that is none of them
UnknownMode == "semantic"

\* if mode == "basic": ... elif "hyde": ... elif "rerank": ... else: # enhanced
dispatch(mode) ==
    CASE mode = "basic" -> "ask_basic"
      [] mode = "hyde" -> "ask_hyde"
      [] mode = "rerank" -> "ask_rerank"
      [] OTHER -> "ask_enhanced"

InitDispatch ==
    /\ op = "dispatch"
    /\ pc = "dispatch"
    /\ TOP_K \in 1..MaxTopK
    /\ store \in Stores(MaxStore)
    /\ question \in Questions
    /\ ArgsInit
    /\ LocalsInit
    /\ retrieval_mode \in ModeNames \cup {UnknownMode}
    /\ results = <<>>
    /\ comparison = <<>>
    /\ embeddings = <<>>
    /\ batch_i = 0
    /\ fallback_j = 0
    /\ persisted = <<>>
    /\ semantic_scores = <<>>
    /\ other = <<>>
    /\ file = <<>>
    /\ cache = <<>>
    /\ processed = <<>>

\* the if / elif / else chain picks the method to call
Dispatch ==
    /\ pc = "dispatch"
    /\ op' = dispatch(retrieval_mode)
    /\ pc' = "start"
    /\ UNCHANGED <<TOP_K, store, question, arg_k, arg_docs, arg_answer,
                   arg_method, outer, hyde_k, hypothetical_answer, hyde_failed,
                   hyde_results, question_results, candidate_docs, ranked_docs,
                   source_docs, citations, calls, raised, escaped, result,
                   response>>

NextDispatch ==
    \/ Dispatch
    \/ Next

SpecDispatch == InitDispatch /\ [][NextDispatch]_vars

-----------------------------------------------------------------------------
(* The ask_* methods on a store of long chunks *)

\* a chunk of exactly 200 characters
T_200 == [i \in 1..200 |-> <<"c", "a", "t", "s", " ">>[((i - 1) % 5) + 1]]

\* a chunk of 201 characters
T_201 == Append(T_200, "x")

CiteContents == {T_Cats, T_200, T_201}

InitCite ==
    /\ op \in AskOps
    /\ pc = "start"
    /\ TOP_K = 2
    /\ store \in UNION {[1..m -> CiteContents] : m \in 0..MaxCiteStore}
    /\ question = Q_Cats
    /\ ArgsInit
    /\ LocalsInit
    /\ OuterInit

SpecCite == InitCite /\ [][Next]_vars

-----------------------------------------------------------------------------
(* core/vector_store_compatible.py: embed_documents, add_documents and       *)
(* similarity_search called on their own                                     *)

RECURSIVE Repeat(_, _)
Repeat(t, n) == IF n = 0 THEN <<>> ELSE t \o Repeat(t, n - 1)

\* batch_size = 10
batch_size == 10

\* the length of the zero vector, [0.0] * 1536
EmbeddingDim == 1536

\* the vector the embedding service returns for a text
Embedding(text) == [of |-> text, zero |-> FALSE, dim |-> EmbeddingDim]

\* [0.0] * 1536
ZeroVector == [of |-> <<>>, zero |-> TRUE, dim |-> EmbeddingDim]

\* n chunks of pairwise different content: "a", "aa", "aaa", ...
ChunksToAdd(n) == [i \in 1..n |-> Document(i, Repeat(<<"a">>, i))]

\* texts = [doc.page_content for doc in documents]
texts_of(documents) == [i \in 1..Len(documents) |-> documents[i].page_content]

\* texts[i:i + batch_size]
batch_at(texts, i) == SubSeq(texts, i + 1, Min(i + batch_size, Len(texts)))

\* the vectors of a batch reply taken in reverse
batch_embeddings_reversed(batch) ==
    [j \in 1..Len(batch) |-> Embedding(batch[Len(batch) + 1 - j])]

\* batch_embeddings = [item.embedding for item in response.data]
batch_embeddings(batch) == [j \in 1..Len(batch) |-> Embedding(batch[j])]

\* a call of client.embeddings.create for the texts first..last (counted from
\* 1), with input a batch or a single text, and whether it raised
EmbedCall(input, first, last, failed) ==
    [call |-> "embeddings.create", input |-> input, first |-> first,
     last |-> last, failed |-> failed]

\* a text whose own embedding call failed is left out
single_failure_dropped(embeddings_) == embeddings_

\* except Exception as single_e: embeddings.append([0.0] * 1536)
single_failure(embeddings_) == Append(embeddings_, ZeroVector)

E_Embedding == <<"e", "m", "b", "e", "d", "d", "i", "n", "g", " ", "d", "o", "w", "n">>

StoreOps == {"embed_documents", "add_documents", "similarity_search"}

InitStore ==
    /\ op \in StoreOps
    /\ pc = "start"
    /\ TOP_K \in 1..MaxTopK
    /\ arg_answer = <<>>
    /\ arg_method = ""
    /\ LocalsInit
    /\ OuterInit
    /\ \/ /\ op = "embed_documents"
          /\ arg_docs \in {ChunksToAdd(n) : n \in 0..MaxTexts}
          /\ store = <<>> /\ question = T_Empty /\ arg_k = None
       \/ /\ op = "add_documents"
          /\ arg_docs \in {ChunksToAdd(n) : n \in 1..MaxTexts}
          /\ store = <<>> /\ question = T_Empty /\ arg_k = None
       \/ /\ op = "similarity_search"
          /\ arg_docs = <<>>
          /\ store \in Stores(MaxStore)
          /\ question \in Questions
          /\ arg_k \in {None} \cup {Some(n) : n \in 0..MaxArgK}

\* return embeddings; in add_documents the store then writes one record per
\* document, persists and returns the ids
EmbeddingsReturned(embeddings_) ==
    /\ pc' = "returned"
    /\ IF op = "add_documents"
       THEN /\ persisted' = persisted \o
                    [i \in 1..Len(embeddings_) |->
                        [id |-> i,
                         page_content |->
                            IF i <= Len(arg_docs)
                            THEN arg_docs[i].page_content ELSE <<>>,
                         vector |-> embeddings_[i]]]
            /\ result' = [i \in 1..Len(arg_docs) |-> i]
       ELSE /\ persisted' = persisted
            /\ result' = embeddings_

\* the end of one turn of the batch loop
BatchDone(embeddings_) ==
    /\ embeddings' = embeddings_
    /\ batch_i' = batch_i + batch_size
    /\ fallback_j' = 0
    /\ IF batch_i + batch_size < Len(arg_docs)
       THEN pc' = "batch" /\ UNCHANGED <<persisted, result>>
       ELSE EmbeddingsReturned(embeddings_)

store_frame == <<op, TOP_K, store, question, arg_k, arg_docs, arg_answer,
                 arg_method, retrieval_mode, results, comparison, hyde_k,
                 hypothetical_answer, hyde_failed, hyde_results,
                 question_results, candidate_docs, ranked_docs, source_docs,
                 citations, response, semantic_scores, other, file, cache,
                 processed>>

\* embed_documents is entered: embeddings = [] and the range loop starts
EnterEmbedDocuments ==
    /\ pc = "start"
    /\ op \in {"embed_documents", "add_documents"}
    /\ IF arg_docs = <<>>
       THEN EmbeddingsReturned(<<>>)
       ELSE pc' = "batch" /\ UNCHANGED <<persisted, result>>
    /\ UNCHANGED <<store_frame, embeddings, batch_i, fallback_j, calls,
                   raised, escaped>>

\* self.client.embeddings.create(input=batch): one vector per text, in order,
\* or an exception that starts the per-text fallback
EmbedBatch ==
    /\ pc = "batch"
    /\ LET batch == batch_at(texts_of(arg_docs), batch_i)
       IN  \/ /\ BatchDone(embeddings \o batch_embeddings(batch))
              /\ calls' = Append(calls, EmbedCall("batch", batch_i + 1,
                                                  batch_i + Len(batch), FALSE))
           \/ /\ pc' = "fallback"
              /\ fallback_j' = 0
              /\ calls' = Append(calls, EmbedCall("batch", batch_i + 1,
                                                  batch_i + Len(batch), TRUE))
              /\ UNCHANGED <<embeddings, batch_i, persisted, result>>
    /\ UNCHANGED <<store_frame, raised, escaped>>

\* self.client.embeddings.create(input=text) for the next text of the failed
\* batch
EmbedSingle ==
    /\ pc = "fallback"
    /\ LET batch == batch_at(texts_of(arg_docs), batch_i)
           text == batch[fallback_j + 1]
       IN  \E failed \in BOOLEAN :
              LET embeddings_ == IF failed
                                 THEN single_failure(embeddings)
                                 ELSE Append(embeddings, Embedding(text))
              IN  /\ calls' = Append(calls,
                                     EmbedCall("text", batch_i + fallback_j + 1,
                                               batch_i + fallback_j + 1, failed))
                  /\ IF fallback_j + 1 = Len(batch)
                     THEN BatchDone(embeddings_)
                     ELSE /\ embeddings' = embeddings_
                          /\ fallback_j' = fallback_j + 1
                          /\ UNCHANGED <<pc, batch_i, persisted, result>>
    /\ UNCHANGED <<store_frame, raised, escaped>>

\* VectorStoreManager.similarity_search(query, k): embed_query, then the
\* nearest chunks; nothing catches a failure of the embedding call
SearchStore ==
    /\ pc = "start"
    /\ op = "similarity_search"
    /\ calls' = Append(calls, SearchCall(Text(question), OrElse(arg_k, TOP_K)))
    /\ pc' = "returned"
    /\ \/ /\ raised' = Error("embed_query", E_Embedding)
          /\ escaped' = TRUE
          /\ result' = result
       \/ /\ \E order \in OrdersFor(question) :
                result' = similarity_search(order, arg_k)
          /\ UNCHANGED <<raised, escaped>>
    /\ UNCHANGED <<store_frame, embeddings, batch_i, fallback_j, persisted>>

NextStore ==
    \/ EnterEmbedDocuments
    \/ EmbedBatch
    \/ EmbedSingle
    \/ SearchStore

SpecStore == InitStore /\ [][NextStore]_vars

-----------------------------------------------------------------------------
(* core/enhanced_rag_chain.py: compare_methods *)

\* the keys of the methods dict, in insertion order
methods == <<"basic", "hyde", "rerank", "enhanced">>

\* the method each key is bound to
method_func ==
    [basic |-> "ask_basic", hyde |-> "ask_hyde", rerank |-> "ask_rerank",
     enhanced |-> "ask_enhanced"]

\* sorted(pairs, key=lambda x: x[1]): non-decreasing by an integer value,
\* stable
RECURSIVE sorted_by_value(_)
sorted_by_value(pairs) ==
    IF pairs = <<>> THEN <<>>
    ELSE LET n == Len(pairs)
             x == pairs[n]
             acc == sorted_by_value(SubSeq(pairs, 1, n - 1))
             p == Cardinality({i \in 1..Len(acc) : acc[i][2] <= x[2]})
         IN  SubSeq(acc, 1, p) \o <<x>> \o SubSeq(acc, p + 1, Len(acc))

\* [(k, v[field]) for k, v in results.items()]
items_of(results_, field) ==
    [i \in 1..Len(results_) |-> <<results_[i][1], results_[i][2][field]>>]

\* the confidences listed in the order of the dict
confidence_ranking_unsorted(results_) == items_of(results_, "confidence")

\* sorted([(k, v["confidence"]) ...], key=lambda x: x[1], reverse=True)
confidence_ranking(results_) == sort_reverse(items_of(results_, "confidence"))

\* sorted([(k, v["response_time"]) ...], key=lambda x: x[1])
speed_ranking(results_) == sorted_by_value(items_of(results_, "response_time"))

\* the stores compare_methods is run on
CompareStores ==
    {<<>>, <<T_RagUpper>>, <<T_Cats, T_RagLower>>}

InitCompare ==
    /\ op = method_func[methods[1]]
    /\ pc = "start"
    /\ TOP_K = 1
    /\ store \in CompareStores
    /\ question = Q_WhatIsRag
    /\ ArgsInit
    /\ LocalsInit
    /\ OuterInit

\* results[method_name] = method_func(question), then the next turn of the
\* loop or the return with the two rankings
StoreResult ==
    /\ pc = "returned"
    /\ op \in AskOps
    /\ Len(results) < Len(methods)
    /\ LET results_ == Append(results, <<methods[Len(results) + 1], result>>)
       IN  /\ results' = results_
           /\ IF Len(results_) < Len(methods)
              THEN /\ op' = method_func[methods[Len(results_) + 1]]
                   /\ pc' = "start"
                   /\ comparison' = comparison
              ELSE /\ op' = "compare_methods"
                   /\ pc' = "returned"
                   /\ comparison' =
                         [confidence_ranking |-> confidence_ranking(results_),
                          speed_ranking |-> speed_ranking(results_)]
    /\ hyde_k' = 0
    /\ hypothetical_answer' = NoneText
    /\ hyde_failed' = FALSE
    /\ hyde_results' = <<>>
    /\ question_results' = <<>>
    /\ candidate_docs' = <<>>
    /\ ranked_docs' = <<>>
    /\ source_docs' = <<>>
    /\ citations' = <<>>
    /\ calls' = <<>>
    /\ raised' = NoError
    /\ escaped' = FALSE
    /\ result' = <<>>
    /\ response' = None
    /\ UNCHANGED <<TOP_K, store, question, arg_k, arg_docs, arg_answer,
                   arg_method, retrieval_mode, embeddings, batch_i, fallback_j,
                   persisted, semantic_scores, other, file, cache, processed>>

NextCompare ==
    \/ StoreResult
    \/ Next

SpecCompare == InitCompare /\ [][NextCompare]_vars

-----------------------------------------------------------------------------
(* core/reranker.py: calculate_semantic_score and advanced_rerank *)

DigitSeq == <<"0", "1", "2", "3", "4", "5", "6", "7", "8", "9">>

\* float(digits) for a run of decimal digits
RECURSIVE float_of(_)
float_of(digits) ==
    IF digits = <<>> THEN 0
    ELSE LET n == Len(digits)
             last == (CHOOSE i \in 1..10 : DigitSeq[i] = digits[n]) - 1
         IN  float_of(SubSeq(digits, 1, n - 1)) * 10 + last

\* re.search(r'\d+', t): the first run of digits, None when there is none
search_digits(t) ==
    LET found == Runs(t, Digits)
    IN  IF found = <<>> THEN None ELSE <<found[1]>>

\* a reply without a number scored as irrelevant
no_score_zero(score_text) == RInt(0)

\* return 0.5, on a reply without a number and on an exception
no_score(score_text) == Rat(1, 2)

\* the replies of the scoring call: 8, 10, 15, 0, " 7\n", "score: 3",
\* "none", "" and a message without content
R_8 == <<"8">>
R_10 == <<"1", "0">>
R_15 == <<"1", "5">>
R_0 == <<"0">>
R_7 == <<" ", "7", "\n">>
R_Score3 == <<"s", "c", "o", "r", "e", ":", " ", "3">>
R_NoNumber == <<"n", "o", "n", "e">>

ScoreReplies ==
    {Text(t) : t \in {R_8, R_10, R_15, R_0, R_7, R_Score3, R_NoNumber, T_Empty}}
        \cup {NoneText}

\* what one scoring call did: it raised, or it returned a message
ScoringOutcomes ==
    {[failed |-> TRUE, reply |-> NoneText]}
        \cup {[failed |-> FALSE, reply |-> r] : r \in ScoreReplies}

\* calculate_semantic_score, given what the scoring call did; .strip() of a
\* missing content raises inside the try block
calculate_semantic_score(failed, reply) ==
    IF failed \/ reply.none
    THEN no_score(<<>>)
    ELSE LET score_match == search_digits(reply.text)
         IN  IF score_match # None
             THEN RMin(RMax(Rat(float_of(score_match[1]), 10), RInt(0)), RInt(1))
             ELSE no_score(reply.text)

\* lexical_score * 0.3 + semantic_score * 0.7
advanced_score(query, doc, semantic_score) ==
    RAdd(RMul(calculate_lexical_similarity(query, doc.page_content), Rat(3, 10)),
         RMul(semantic_score, Rat(7, 10)))

InitAdvanced ==
    /\ op = "advanced_rerank"
    /\ pc = "start"
    /\ TOP_K = DefaultTopK
    /\ store = <<>>
    /\ question = Q_WhatIsRag
    /\ arg_docs \in DocLists(MaxScoredDocs)
    /\ arg_k \in {None, Some(1)}
    /\ arg_answer = <<>>
    /\ arg_method = ""
    /\ LocalsInit
    /\ OuterInit

\* scored_docs.sort(key=lambda x: x[1], reverse=True); return scored_docs[:top_k]
ScoringDone(scored_docs) ==
    /\ result' = SliceTo(sort_reverse(scored_docs),
                         OrElse(arg_k, Len(arg_docs)))
    /\ pc' = "returned"

advanced_frame == <<op, TOP_K, store, question, arg_k, arg_docs, arg_answer,
                    arg_method, retrieval_mode, results, comparison,
                    embeddings, batch_i, fallback_j, persisted, hyde_k,
                    hypothetical_answer, hyde_failed, hyde_results,
                    question_results, candidate_docs, source_docs, citations,
                    calls, raised, escaped, response, other, file, cache,
                    processed>>

\* top_k = top_k or len(documents); scored_docs = []; the loop starts
EnterAdvancedRerank ==
    /\ pc = "start"
    /\ op = "advanced_rerank"
    /\ IF arg_docs = <<>>
       THEN ScoringDone(<<>>)
       ELSE pc' = "score" /\ result' = result
    /\ UNCHANGED <<advanced_frame, ranked_docs, semantic_scores>>

\* one turn of the loop: the scoring call for the next document answers or
\* raises, and the document is appended with its score
ScoreDocument ==
    /\ pc = "score"
    /\ \E outcome \in ScoringOutcomes :
          LET doc == arg_docs[Len(ranked_docs) + 1]
              semantic_score == calculate_semantic_score(outcome.failed,
                                                         outcome.reply)
              scored_docs == Append(ranked_docs,
                                    <<doc, advanced_score(question, doc,
                                                          semantic_score)>>)
          IN  /\ ranked_docs' = scored_docs
              /\ semantic_scores' =
                    Append(semantic_scores,
                           [failed |-> outcome.failed, reply |-> outcome.reply,
                            score |-> semantic_score])
              /\ IF Len(scored_docs) = Len(arg_docs)
                 THEN ScoringDone(scored_docs)
                 ELSE pc' = pc /\ result' = result
    /\ UNCHANGED advanced_frame

NextAdvanced ==
    \/ EnterAdvancedRerank
    \/ ScoreDocument

SpecAdvanced == InitAdvanced /\ [][NextAdvanced]_vars

-----------------------------------------------------------------------------
(* Two ask_* calls under way at once *)

\* the locals of the request that is running
RunningFrame ==
    [op |-> op, pc |-> pc, question |-> question, hyde_k |-> hyde_k,
     hypothetical_answer |-> hypothetical_answer, hyde_failed |-> hyde_failed,
     hyde_results |-> hyde_results, question_results |-> question_results,
     candidate_docs |-> candidate_docs, ranked_docs |-> ranked_docs,
     source_docs |-> source_docs, citations |-> citations, calls |-> calls,
     raised |-> raised, escaped |-> escaped, result |-> result,
     response |-> response]

\* the locals of a call of method o with question q that has not started
FreshFrame(o, q) ==
    [op |-> o, pc |-> "start", question |-> q, hyde_k |-> 0,
     hypothetical_answer |-> NoneText, hyde_failed |-> FALSE,
     hyde_results |-> <<>>, question_results |-> <<>>,
     candidate_docs |-> <<>>, ranked_docs |-> <<>>, source_docs |-> <<>>,
     citations |-> <<>>, calls |-> <<>>, raised |-> NoError,
     escaped |-> FALSE, result |-> <<>>, response |-> None]

\* a citations list that belongs to the chain object and not to the call
LoadFrame_shared_citations(f) ==
    /\ op' = f.op
    /\ pc' = f.pc
    /\ question' = f.question
    /\ hyde_k' = f.hyde_k
    /\ hypothetical_answer' = f.hypothetical_answer
    /\ hyde_failed' = f.hyde_failed
    /\ hyde_results' = f.hyde_results
    /\ question_results' = f.question_results
    /\ candidate_docs' = f.candidate_docs
    /\ ranked_docs' = f.ranked_docs
    /\ source_docs' = f.source_docs
    /\ citations' = citations
    /\ calls' = f.calls
    /\ raised' = f.raised
    /\ escaped' = f.escaped
    /\ result' = f.result
    /\ response' = f.response

\* the other request goes on with its own locals: every name the ask_*
\* methods, hyde_retrieve and simple_rerank assign is a local of the call
LoadFrame(f) ==
    /\ op' = f.op
    /\ pc' = f.pc
    /\ question' = f.question
    /\ hyde_k' = f.hyde_k
    /\ hypothetical_answer' = f.hypothetical_answer
    /\ hyde_failed' = f.hyde_failed
    /\ hyde_results' = f.hyde_results
    /\ question_results' = f.question_results
    /\ candidate_docs' = f.candidate_docs
    /\ ranked_docs' = f.ranked_docs
    /\ source_docs' = f.source_docs
    /\ citations' = f.citations
    /\ calls' = f.calls
    /\ raised' = f.raised
    /\ escaped' = f.escaped
    /\ result' = f.result
    /\ response' = f.response

\* the store the two requests share
SharedStore == <<T_Cats, T_RagUpper>>

InitConcurrent ==
    /\ op \in AskOps
    /\ pc = "start"
    /\ TOP_K = 1
    /\ store = SharedStore
    /\ question = Q_WhatIsRag
    /\ ArgsInit
    /\ LocalsInit
    /\ retrieval_mode = "enhanced"
    /\ results = <<>>
    /\ comparison = <<>>
    /\ embeddings = <<>>
    /\ batch_i = 0
    /\ fallback_j = 0
    /\ persisted = <<>>
    /\ semantic_scores = <<>>
    /\ file = <<>>
    /\ cache = <<>>
    /\ processed = <<>>
    /\ other \in {FreshFrame(o, Q_Cats) : o \in AskOps}

\* the running request waits in an external call (or has returned) and the
\* other request runs on
Switch ==
    /\ other # <<>>
    /\ other' = RunningFrame
    /\ LoadFrame(other)
    /\ UNCHANGED <<TOP_K, store, arg_k, arg_docs, arg_answer, arg_method,
                   retrieval_mode, results, comparison, embeddings, batch_i,
                   fallback_j, persisted, semantic_scores, file, cache,
                   processed>>

NextConcurrent ==
    \/ Switch
    \/ Next

SpecConcurrent == InitConcurrent /\ [][NextConcurrent]_vars

-----------------------------------------------------------------------------
(* hyde_retrieve over a store larger than the 2k of its first search *)

\* stores of MaxMergeStore chunks, many of equal content
MergeStores == [1..MaxMergeStore -> {T_Cats, T_RagUpper}]

\* ask_hyde with TOP_K = 2: hyde_retrieve(question, k=2)
InitMerge ==
    /\ op = "ask_hyde"
    /\ TOP_K = 2
    /\ pc = "start"
    /\ store \in MergeStores
    /\ question = Q_WhatIsRag
    /\ ArgsInit
    /\ LocalsInit
    /\ OuterInit

NextMerge ==
    \/ GenerateHypotheticalAnswer
    \/ HydeSearch
    \/ QuestionSearch
    \/ GenerateAnswer

SpecMerge == InitMerge /\ [][NextMerge]_vars

-----------------------------------------------------------------------------
(* core/document_loader.py: process_document and its cache *)

\* a chunk: a langchain Document with its metadata dict
Chunk(page_content, metadata) ==
    [page_content |-> page_content, metadata |-> metadata]

\* the number of characters of a list of texts
RECURSIVE TotalLen(_)
TotalLen(texts) ==
    IF texts = <<>> THEN 0 ELSE Len(Head(texts)) + TotalLen(Tail(texts))

\* the files process_document is given: a name, a size in bytes, and the
\* texts the splitter cuts the file into
Files ==
    {[name |-> n, size |-> TotalLen(t), texts |-> t] :
        n \in {"a.txt", "a.csv"},
        t \in UNION {[1..m -> {T_Cats, T_RagUpper}] : m \in 0..MaxChunks}}

\* _get_file_hash: the md5 digest of the bytes; files of different texts have
\* different digests
_get_file_hash(f) == <<"md5", f.texts>>

\* _load_from_cache: the pickled chunks, None when there is no cache file or
\* it cannot be read
_load_from_cache(file_hash, load_failed) ==
    IF file_hash \in DOMAIN cache /\ ~load_failed
    THEN Some(cache[file_hash])
    ELSE None

\* if cached_chunks: neither None nor an empty list
truthy(cached_chunks) ==
    IF cached_chunks = None THEN FALSE ELSE cached_chunks[1] # <<>>

\* load_document: only .pdf, .txt and .md have a loader
supported(f) == f.name # "a.csv"

\* split_documents: the chunks of the splitter, each with the loader's
\* metadata and chunk_id, chunk_size, created_at
split_documents(f, now) ==
    [i \in 1..Len(f.texts) |->
        Chunk(f.texts[i],
              ("chunk_id" :> i - 1) @@ ("chunk_size" :> Len(f.texts[i]))
              @@ ("created_at" :> now) @@ ("source" :> f.name))]

\* the cache hit: chunk.metadata['source_file'] = filename
with_source_file(chunks, f) ==
    [i \in 1..Len(chunks) |->
        Chunk(chunks[i].page_content,
              ("source_file" :> f.name) @@ chunks[i].metadata)]

\* step 4 of the cache miss: chunk.metadata.update({...})
with_file_metadata(chunks, f) ==
    [i \in 1..Len(chunks) |->
        Chunk(chunks[i].page_content,
              ("source_file" :> f.name) @@ ("file_size" :> f.size)
              @@ ("chunk_index" :> i - 1) @@ ("total_chunks" :> Len(chunks))
              @@ ("file_hash" :> _get_file_hash(f)) @@ chunks[i].metadata)]

\* time.time() at the split, in whole ticks
Clock == 0..MaxClock

\* what a call returned (or the exception it raised)
Processed(hit, chunks, error) == [hit |-> hit, chunks |-> chunks, error |-> error]

InitLoader ==
    /\ op = "process_document"
    /\ pc = "start"
    /\ TOP_K = DefaultTopK
    /\ store = <<>>
    /\ question = <<>>
    /\ ArgsInit
    /\ LocalsInit
    /\ retrieval_mode = "enhanced"
    /\ results = <<>>
    /\ comparison = <<>>
    /\ embeddings = <<>>
    /\ batch_i = 0
    /\ fallback_j = 0
    /\ persisted = <<>>
    /\ semantic_scores = <<>>
    /\ other = <<>>
    /\ file \in Files
    /\ cache = <<>>
    /\ processed = <<>>

loader_frame == <<op, pc, TOP_K, store, question, arg_k, arg_docs, arg_answer,
                  arg_method, retrieval_mode, results, comparison, embeddings,
                  batch_i, fallback_j, persisted, semantic_scores, other,
                  hyde_k, hypothetical_answer, hyde_failed, hyde_results,
                  question_results, candidate_docs, ranked_docs, source_docs,
                  citations, calls, raised, escaped, result, response, file>>

\* if cached_chunks: the cached chunks get source_file and are returned
CacheHit ==
    /\ Len(processed) < MaxCalls
    /\ \E load_failed \in BOOLEAN :
          LET cached_chunks == _load_from_cache(_get_file_hash(file), load_failed)
          IN  /\ truthy(cached_chunks)
              /\ processed' = Append(processed,
                                     Processed(TRUE,
                                               with_source_file(cached_chunks[1], file),
                                               ""))
    /\ UNCHANGED <<loader_frame, cache>>

\* no cached chunks (no cache file, an unreadable one, or an empty list):
\* load, split, save to the cache, then add the file metadata; the summary
\* print divides by len(chunks)
CacheMiss ==
    /\ Len(processed) < MaxCalls
    /\ \E load_failed \in BOOLEAN, save_failed \in BOOLEAN, now \in Clock :
          LET file_hash == _get_file_hash(file)
              cached_chunks == _load_from_cache(file_hash, load_failed)
              chunks == split_documents(file, now)
          IN  /\ ~truthy(cached_chunks)
              /\ IF ~supported(file)
                 THEN /\ cache' = cache
                      /\ processed' = Append(processed,
                                             Processed(FALSE, <<>>, "ValueError"))
                 ELSE /\ cache' = IF save_failed THEN cache
                                  ELSE (file_hash :> chunks) @@ cache
                      /\ processed' =
                            Append(processed,
                                   IF chunks = <<>>
                                   THEN Processed(FALSE, <<>>, "ZeroDivisionError")
                                   ELSE Processed(FALSE,
                                                  with_file_metadata(chunks, file),
                                                  ""))
    /\ UNCHANGED loader_frame

NextLoader ==
    \/ CacheHit
    \/ CacheMiss

SpecLoader == InitLoader /\ [][NextLoader]_vars

-----------------------------------------------------------------------------
(* simple_rerank called on its own *)

InitRerank ==
    /\ op = "simple_rerank"
    /\ pc = "start"
    /\ TOP_K = DefaultTopK
    /\ store = <<>>
    /\ question \in Questions
    /\ arg_docs \in DocLists(MaxDocs)
    /\ arg_k \in {None} \cup {Some(n) : n \in 0..MaxArgK}
    /\ arg_answer = <<>>
    /\ arg_method = ""
    /\ LocalsInit
    /\ OuterInit

CallSimpleRerank ==
    /\ pc = "start"
    /\ op = "simple_rerank"
    /\ result' = simple_rerank(question, arg_docs, arg_k)
    /\ pc' = "returned"
    /\ UNCHANGED <<config, hyde_k, hypothetical_answer, hyde_failed,
                   hyde_results, question_results, candidate_docs, ranked_docs,
                   source_docs, citations, calls, raised, escaped,
                   response>>

NextRerank == CallSimpleRerank

SpecRerank == InitRerank /\ [][NextRerank]_vars

\* a chunk without a word
T_Punct == <<"?", ".">>

\* short chunks, a chunk of 200 characters and a chunk without a word
LexicalContents == Contents \cup {T_200, T_Punct}

\* simple_rerank on candidates of every length class, all of them returned
InitLexical ==
    /\ op = "simple_rerank"
    /\ pc = "start"
    /\ TOP_K = DefaultTopK
    /\ store = <<>>
    /\ question \in Questions \cup {T_Empty}
    /\ arg_docs \in UNION {{[i \in 1..m |-> Document(i, c[i])] :
                               c \in [1..m -> LexicalContents]} : m \in 0..MaxDocs}
    /\ arg_k = None
    /\ arg_answer = <<>>
    /\ arg_method = ""
    /\ LocalsInit
    /\ OuterInit

SpecLexical == InitLexical /\ [][NextRerank]_vars

-----------------------------------------------------------------------------
(* calculate_enhanced_confidence called on its own *)

\* an answer that repeats the question
A_Echo == <<"w", "h", "a", "t", " ", "i", "s", " ", "r", "a", "g", "?">>

\* an answer of 40 words
A_Long == Repeat(<<"c", "a", "t", "s", " ">>, 40)

InitConfidence ==
    /\ op = "calculate_enhanced_confidence"
    /\ pc = "start"
    /\ TOP_K \in 1..MaxTopK
    /\ store = <<>>
    /\ question \in Questions \cup {T_Empty}
    /\ arg_docs \in DocLists(MaxDocs)
    /\ arg_k = None
    /\ arg_answer \in Answers \cup {A_Long, A_Echo}
    /\ arg_method \in MethodTags
    /\ LocalsInit
    /\ OuterInit

CallCalculateEnhancedConfidence ==
    /\ pc = "start"
    /\ op = "calculate_enhanced_confidence"
    /\ result' = calculate_enhanced_confidence(arg_docs, question, arg_answer,
                                               arg_method)
    /\ pc' = "returned"
    /\ UNCHANGED <<config, hyde_k, hypothetical_answer, hyde_failed,
                   hyde_results, question_results, candidate_docs, ranked_docs,
                   source_docs, citations, calls, raised, escaped,
                   response>>

NextConfidence == CallCalculateEnhancedConfidence

SpecConfidence == InitConfidence /\ [][NextConfidence]_vars

-----------------------------------------------------------------------------
(* Properties *)

AskReturned == op \in AskOps /\ pc = "returned"

\* hyde_retrieve has returned to ask_hyde / ask_enhanced
HydeRetrieved == op \in {"ask_hyde", "ask_enhanced"} /\ pc = "generate"

\* everything the two searches of hyde_retrieve returned, in merge order
AllHydeResults == hyde_results \o question_results

\* the first document of each content, in first-seen order
RECURSIVE FirstSeen(_)
FirstSeen(docs) ==
    IF docs = <<>> THEN <<>>
    ELSE LET n == Len(docs)
             before == FirstSeen(SubSeq(docs, 1, n - 1))
         IN  IF \E i \in 1..Len(before) : before[i].page_content = docs[n].page_content
             THEN before
             ELSE Append(before, docs[n])

ContentsOf(docs) == {docs[i].page_content : i \in 1..Len(docs)}

IsPrefix(p, t) == Len(p) <= Len(t) /\ SubSeq(t, 1, Len(p)) = p

\* C1: when the store search or the answer generation raises inside an ask_*
\* method, the method does not raise: it returns confidence 0.0, no citations,
\* source_count 0 and a non-empty apology that carries the error text.
C1_FailureBoundary ==
    (AskReturned /\ raised.where \in {"store", "generation"}) =>
        /\ ~escaped
        /\ result.confidence = RInt(0)
        /\ result.citations = <<>>
        /\ result.source_count = 0
        /\ ~result.answer.none
        /\ result.answer.text # <<>>
        /\ IsPrefix(ApologyPrefix, result.answer.text)
        /\ result.answer.text = ApologyPrefix \o raised.text

\* C1 witness: the generation call of ask_enhanced raised after chunks had
\* been retrieved and cited.
C1_Witness ==
    /\ AskReturned
    /\ op = "ask_enhanced"
    /\ raised.where = "generation"
    /\ citations # <<>>
    /\ result.citations = <<>>

C4_RerankLength ==
    (op = "simple_rerank" /\ pc = "returned" /\ arg_k # None /\ arg_k[1] >= 0) =>
        Len(result) = Min(arg_k[1], Len(arg_docs))

\* C5: the list returned by simple_rerank is non-increasing by score, and
\* candidates of equal score keep their order of the input list.
C5_RerankSortedStable ==
    (op = "simple_rerank" /\ pc = "returned") =>
        \A i, j \in 1..Len(result) :
            i < j =>
                /\ RLe(result[j][2], result[i][2])
                /\ result[i][2] = result[j][2] => result[i][1].id < result[j][1].id

\* C5 witness: the ranker moved a candidate forward and returned two
\* candidates of equal score and different content.
C5_Witness ==
    /\ op = "simple_rerank"
    /\ pc = "returned"
    /\ \E i, j \in 1..Len(result) :
          /\ i < j
          /\ result[i][2] = result[j][2]
          /\ result[i][1].page_content # result[j][1].page_content
    /\ \E i \in 1..Len(result) : result[i][1].id # i

\* C6: hyde_retrieve(question, k) returns at most k chunks; when fewer than k
\* unique chunks are left it returns exactly those, once each.
C6_HydeAtMostK ==
    HydeRetrieved =>
        /\ hyde_k >= 1
        /\ Len(candidate_docs) <= hyde_k
        /\ Cardinality(ContentsOf(AllHydeResults)) < hyde_k =>
              /\ ContentsOf(candidate_docs) = ContentsOf(AllHydeResults)
              /\ Len(candidate_docs) = Cardinality(ContentsOf(AllHydeResults))
        /\ raised = NoError

\* C6 witness: deduplication removed chunks and left fewer than k.
C6_Witness ==
    /\ HydeRetrieved
    /\ candidate_docs # <<>>
    /\ Len(candidate_docs) < hyde_k
    /\ Len(AllHydeResults) > hyde_k

\* C7: the list returned by hyde_retrieve holds no two chunks of identical
\* content.
C7_HydeNoDuplicateContent ==
    HydeRetrieved =>
        \A i, j \in 1..Len(candidate_docs) :
            candidate_docs[i].page_content = candidate_docs[j].page_content => i = j

\* C7 witness: both searches returned the same chunk, the store holds two
\* chunks of equal content, and two chunks were returned.
C7_Witness ==
    /\ HydeRetrieved
    /\ \E i \in 1..Len(hyde_results) : \E j \in 1..Len(question_results) :
          hyde_results[i].id = question_results[j].id
    /\ \E i, j \in 1..Len(hyde_results) :
          i # j /\ hyde_results[i].page_content = hyde_results[j].page_content
    /\ Len(candidate_docs) >= 2

\* C8: hyde_retrieve searches with the hypothetical answer for 2k and with the
\* question for k, and returns the first k of the first-seen-order
\* deduplication of the hypothetical-answer results followed by the
\* question results.
C8_HydeMergeOrder ==
    HydeRetrieved =>
        /\ calls = <<ChatCall("generate_hypothetical_answer"),
                     SearchCall(hypothetical_answer, 2 * hyde_k),
                     SearchCall(Text(question), hyde_k)>>
        /\ Len(hyde_results) = Min(2 * hyde_k, Len(store))
        /\ Len(question_results) = Min(hyde_k, Len(store))
        /\ candidate_docs = SliceTo(FirstSeen(AllHydeResults), hyde_k)

\* C8 witness: the loop left early (more than k unique chunks were found) and
\* the two searches ranked the store differently.
C8_Witness ==
    /\ HydeRetrieved
    /\ Len(FirstSeen(AllHydeResults)) > hyde_k
    /\ question_results # SliceTo(hyde_results, Len(question_results))
    /\ Len(candidate_docs) >= 2

\* C9: when the generation call of generate_hypothetical_answer fails, the
\* function does not raise and returns the question unchanged.
C9_HydeFallback ==
    hyde_failed =>
        /\ hypothetical_answer = Text(question)
        /\ ~escaped
        /\ raised.where # "generate_hypothetical_answer"
        /\ Len(calls) = 1 => pc = "hyde_search"

\* C9 witness: the HyDE generation call has just failed.
C9_Witness ==
    /\ hyde_failed
    /\ pc = "hyde_search"
    /\ calls = <<ChatCall("generate_hypothetical_answer")>>

\* the external calls each method makes to retrieve, given its k
RetrievalCalls(k) ==
    IF op \in {"ask_basic", "ask_rerank"}
    THEN <<SearchCall(Text(question), k)>>
    ELSE <<ChatCall("generate_hypothetical_answer"),
           SearchCall(hypothetical_answer, 2 * k),
           SearchCall(Text(question), k)>>

\* C10: ask_rerank and ask_enhanced retrieve with k = 2 x TOP_K (store search
\* and hyde_retrieve) and hand the candidates to the lexical ranker truncated
\* to TOP_K; ask_basic and ask_hyde retrieve with k = TOP_K and keep the
\* retrieval order.
C10_ModeTable ==
    (op \in AskOps /\ pc = "generate") =>
        /\ op \in {"ask_rerank", "ask_enhanced"} =>
              /\ calls = RetrievalCalls(2 * TOP_K)
              /\ source_docs =
                    docs_of(simple_rerank(question, candidate_docs, Some(TOP_K)))
        /\ op \in {"ask_basic", "ask_hyde"} =>
              /\ calls = RetrievalCalls(TOP_K)
              /\ source_docs = candidate_docs
        /\ op \in {"ask_basic", "ask_rerank"} =>
              candidate_docs = [i \in 1..Min(calls[1].k, Len(store)) |-> StoreDoc(i)]
        /\ op \in {"ask_hyde", "ask_enhanced"} =>
              candidate_docs = SliceTo(FirstSeen(AllHydeResults), calls[3].k)

\* C10 witness: ask_rerank received 2 x TOP_K candidates and the ranker
\* changed their order.
C10_Witness ==
    /\ op = "ask_rerank"
    /\ pc = "generate"
    /\ Len(candidate_docs) = 2 * TOP_K
    /\ source_docs # SliceTo(candidate_docs, TOP_K)

\* the tag the specification gives each mode
ModeTag ==
    [ask_basic |-> "basic", ask_hyde |-> "hyde", ask_rerank |-> "rerank",
     ask_enhanced |-> "hyde+rerank"]

\* C11: the retrieval_method of every result of an ask_* method, success or
\* failure, is the tag of its mode (basic, hyde, rerank, hyde+rerank), and
\* every citation of the result carries the same tag.
C11_MethodTags ==
    AskReturned =>
        /\ result.retrieval_method = ModeTag[op]
        /\ \A i \in 1..Len(result.citations) :
              result.citations[i].retrieval_method = ModeTag[op]
        /\ \A i \in 1..Len(citations) :
              citations[i].retrieval_method = ModeTag[op]

\* C11 witness: ask_enhanced succeeded with citations.
C11_Witness ==
    /\ AskReturned
    /\ op = "ask_enhanced"
    /\ raised = NoError
    /\ result.citations # <<>>
    /\ result.retrieval_method = "hyde+rerank"

KeysOf(pairs) == [i \in 1..Len(pairs) |-> pairs[i][1]]

\* a sequence that lists each of the four method names once
ListsAllMethodsOnce(keys) ==
    /\ Len(keys) = 4
    /\ {keys[i] : i \in 1..Len(keys)} = ModeNames

\* C13: compare_methods returns results keyed by exactly basic, hyde, rerank
\* and enhanced, a confidence_ranking that is non-increasing by confidence and
\* a speed_ranking that is non-decreasing by response_time; each ranking lists
\* all four keys once, also when some or all modes fail.
C13_CompareRankings ==
    (op = "compare_methods" /\ pc = "returned") =>
        /\ ListsAllMethodsOnce(KeysOf(results))
        /\ ListsAllMethodsOnce(KeysOf(comparison.confidence_ranking))
        /\ ListsAllMethodsOnce(KeysOf(comparison.speed_ranking))
        /\ \A i \in 1..4 :
              /\ \E j \in 1..4 :
                    /\ results[j][1] = comparison.confidence_ranking[i][1]
                    /\ results[j][2].confidence = comparison.confidence_ranking[i][2]
              /\ \E j \in 1..4 :
                    /\ results[j][1] = comparison.speed_ranking[i][1]
                    /\ results[j][2].response_time = comparison.speed_ranking[i][2]
        /\ \A i \in 1..3 :
              /\ RLe(comparison.confidence_ranking[i + 1][2],
                     comparison.confidence_ranking[i][2])
              /\ comparison.speed_ranking[i][2] <= comparison.speed_ranking[i + 1][2]

\* C13 witness: one mode failed, a later mode succeeded, and both rankings
\* differ from the order of the results.
C13_Witness ==
    /\ op = "compare_methods"
    /\ pc = "returned"
    /\ results[1][2].confidence = RInt(0)
    /\ \E j \in 2..4 : RLt(RInt(0), results[j][2].confidence)
    /\ KeysOf(comparison.confidence_ranking) # KeysOf(results)
    /\ KeysOf(comparison.speed_ranking) # KeysOf(results)

\* C14: embed_documents never raises on embedding errors and returns exactly
\* len(texts) vectors, the i-th one for the i-th text, whether batches fail,
\* some per-text calls fail or all calls fail.
C14_EmbedAllTexts ==
    (op \in {"embed_documents", "add_documents"} /\ pc = "returned") =>
        /\ ~escaped
        /\ raised = NoError
        /\ Len(embeddings) = Len(arg_docs)
        /\ \A i \in 1..Len(embeddings) :
              embeddings[i] \in {Embedding(arg_docs[i].page_content), ZeroVector}
        /\ op = "embed_documents" => result = embeddings

\* C14 witness: of more than one batch of texts, the first batch failed, its
\* per-text calls failed for some texts and not for others, and the last text
\* of the second batch failed too.
C14_Witness ==
    /\ op = "embed_documents"
    /\ pc = "returned"
    /\ Len(arg_docs) > batch_size
    /\ result[1].zero
    /\ ~result[2].zero
    /\ result[3].zero
    /\ result[Len(arg_docs)].zero

\* C15: when the embedding call for the query fails during
\* similarity_search, the search does not raise and returns an empty result.
C15_SearchDegradesToEmpty ==
    (op = "similarity_search" /\ pc = "returned"
        /\ raised.where = "embed_query") =>
        /\ ~escaped
        /\ result = <<>>

\* C16: when every embedding call fails during add_documents, the add raises
\* StoreUnavailable and persists no zero vectors.
C16_AddPropagatesTotalFailure ==
    (op = "add_documents" /\ pc = "returned"
        /\ \A i \in 1..Len(embeddings) : embeddings[i].zero) =>
        /\ escaped
        /\ raised.where = "StoreUnavailable"
        /\ persisted = <<>>

\* the answer generation returned a non-empty text
GenerationAnswered ==
    /\ response # None
    /\ ~response[1].none
    /\ response[1].text # <<>>

\* C17: on an empty store, when the generation call answers with a text, each
\* of the four ask_* methods returns source_count 0, no citations, confidence
\* exactly 0.1 and that text as its answer; the empty retrieval is not
\* reported as a failure (confidence is not 0.0).
C17_EmptyStore ==
    (AskReturned /\ store = <<>> /\ GenerationAnswered) =>
        /\ result.source_count = 0
        /\ result.citations = <<>>
        /\ result.confidence = Rat(1, 10)
        /\ result.confidence # RInt(0)
        /\ result.answer = response[1]
        /\ result.answer.text # <<>>
        /\ raised = NoError
        /\ ~escaped

\* C17 witness: ask_enhanced answered on an empty store after both of its
\* searches returned nothing.
C17_Witness ==
    /\ AskReturned
    /\ op = "ask_enhanced"
    /\ store = <<>>
    /\ Len(calls) = 4
    /\ GenerationAnswered
    /\ result.confidence = Rat(1, 10)

\* C18: for every chunk cited by any mode, the citation content is the chunk
\* content unchanged when it has at most 200 characters, and its first 200
\* characters followed by "..." when it has more; a content of exactly 200
\* characters gets no ellipsis.
C18_CitationContent ==
    (op \in AskOps /\ pc \in {"generate", "returned"}) =>
        /\ Len(citations) = Len(source_docs)
        /\ \A i \in 1..Len(citations) :
              LET page_content == source_docs[i].page_content
                  content == citations[i].content
              IN  /\ Len(page_content) <= 200 => content = page_content
                  /\ Len(page_content) > 200 =>
                        /\ Len(content) = 203
                        /\ SubSeq(content, 1, 200) = SubSeq(page_content, 1, 200)
                        /\ SubSeq(content, 201, 203) = <<".", ".", ".">>
        /\ (pc = "returned" /\ raised = NoError) => result.citations = citations

\* C18 witness: a result cites a chunk of exactly 200 characters and a chunk
\* of 201 characters.
C18_Witness ==
    /\ AskReturned
    /\ raised = NoError
    /\ Len(result.citations) = 2
    /\ \E i, j \in 1..2 :
          /\ Len(source_docs[i].page_content) = 200
          /\ Len(result.citations[i].content) = 200
          /\ Len(source_docs[j].page_content) = 201
          /\ Len(result.citations[j].content) = 203

\* C19: the answer of every result returned by an ask_* method is a
\* non-empty text, also when the generation call returns an empty or a
\* missing message content.
C19_AnswerNeverEmpty ==
    AskReturned =>
        /\ ~result.answer.none
        /\ result.answer.text # <<>>

\* the confidence of the same arguments without a method bonus
PlainConfidence ==
    calculate_enhanced_confidence(arg_docs, question, arg_answer, "basic")

\* C20: the method bonus is +0.1 for the tags of ask_hyde and ask_enhanced
\* and 0 for those of ask_basic and ask_rerank: for the same source_docs,
\* question and answer, an unclamped confidence of a HyDE mode is exactly 0.1
\* above that of a mode without HyDE.
C20_HydeBonus ==
    (op = "calculate_enhanced_confidence" /\ pc = "returned"
        /\ arg_docs # <<>>
        /\ RLt(Rat(1, 10), PlainConfidence)
        /\ RLe(RAdd(PlainConfidence, Rat(1, 10)), Rat(95, 100))) =>
        /\ arg_method \in {"hyde", "hyde+rerank"} =>
              result = RAdd(PlainConfidence, Rat(1, 10))
        /\ arg_method \in {"basic", "rerank"} => result = PlainConfidence

\* the score the specification gives each outcome of a scoring call
ExpectedSemanticScore(outcome) ==
    CASE outcome.failed -> Rat(1, 2)
      [] outcome.reply.none -> Rat(1, 2)
      [] outcome.reply.text = R_8 -> Rat(8, 10)
      [] outcome.reply.text = R_10 -> RInt(1)
      [] outcome.reply.text = R_15 -> RInt(1)
      [] outcome.reply.text = R_0 -> RInt(0)
      [] outcome.reply.text = R_7 -> Rat(7, 10)
      [] outcome.reply.text = R_Score3 -> Rat(3, 10)
      [] OTHER -> Rat(1, 2)

\* C21: calculate_semantic_score returns the number of the reply divided by
\* 10 and clamped to [0, 1], and exactly 0.5 when the scoring call fails or
\* its reply holds no number; advanced_rerank goes on after such a failure,
\* scores every candidate and returns a ranking.
C21_SemanticScore ==
    op = "advanced_rerank" =>
        /\ ~escaped
        /\ raised = NoError
        /\ Len(semantic_scores) = Len(ranked_docs)
        /\ \A i \in 1..Len(semantic_scores) :
              /\ semantic_scores[i].score = ExpectedSemanticScore(semantic_scores[i])
              /\ RLe(RInt(0), semantic_scores[i].score)
              /\ RLe(semantic_scores[i].score, RInt(1))
              /\ ranked_docs[i][1] = arg_docs[i]
        /\ pc = "returned" =>
              /\ Len(ranked_docs) = Len(arg_docs)
              /\ Len(result) = Min(OrElse(arg_k, Len(arg_docs)), Len(arg_docs))
              /\ \A i \in 1..Len(result) :
                    \E j \in 1..Len(ranked_docs) : result[i] = ranked_docs[j]
              /\ \A i \in 1..(Len(result) - 1) :
                    RLe(result[i + 1][2], result[i][2])

\* C21 witness: the scoring call raised for the first candidate and answered
\* without a number for the second; both were scored 0.5 and ranked.
C21_Witness ==
    /\ op = "advanced_rerank"
    /\ pc = "returned"
    /\ Len(semantic_scores) = 2
    /\ semantic_scores[1].failed
    /\ ~semantic_scores[2].failed
    /\ semantic_scores[2].reply = Text(R_NoNumber)
    /\ semantic_scores[1].score = Rat(1, 2)
    /\ semantic_scores[2].score = Rat(1, 2)
    /\ Len(result) = 2

\* the case-folded word tokens of a text
Tokens(t) == set(findall_w(lower(t)))

\* |A & B| / |A | B|, taken as 0 when either set is empty
Jaccard(A, B) ==
    IF A = {} \/ B = {} THEN RInt(0)
    ELSE Rat(Cardinality(A \cap B), Cardinality(A \cup B))

\* C22: the score simple_rerank gives a candidate is
\* 0.8 x Jaccard(case-folded query tokens, case-folded document tokens)
\* + 0.2 x min(len(content) / 100, 1), with a Jaccard of 0 when either token
\* set is empty, and lies in [0, 1].
C22_LexicalScore ==
    (op = "simple_rerank" /\ pc = "returned" /\ arg_k = None) =>
        /\ Len(result) = Len(arg_docs)
        /\ \A i \in 1..Len(result) :
              LET content == result[i][1].page_content
                  score == result[i][2]
              IN  /\ score =
                        RAdd(RMul(Rat(8, 10),
                                  Jaccard(Tokens(question), Tokens(content))),
                             RMul(Rat(2, 10),
                                  IF Len(content) >= 100 THEN RInt(1)
                                  ELSE Rat(Len(content), 100)))
                  /\ RLe(RInt(0), score)
                  /\ RLe(score, RInt(1))
                  /\ (Tokens(question) = {} \/ Tokens(content) = {}) =>
                        RLe(score, Rat(2, 10))

\* C22 witness: "What is RAG?" against "RAG is retrieval" scores
\* 0.8 x 2/4 + 0.2 x 16/100 = 0.432, a chunk of 200 characters sharing no
\* word scores 0.2, and a chunk without a word scores 0.2 x 2/100.
C22_Witness ==
    /\ op = "simple_rerank"
    /\ pc = "returned"
    /\ question = Q_WhatIsRag
    /\ Len(result) = 3
    /\ result[1] = <<Document(2, T_RagUpper), Rat(432, 1000)>>
    /\ result[2] = <<Document(1, T_200), Rat(2, 10)>>
    /\ result[3] = <<Document(3, T_Punct), Rat(4, 1000)>>

\* the question tokens longer than 2 characters
LongTokens(question_) == {w \in set(split(lower(question_))) : Len(w) > 2}

\* those of them that appear in the lower-cased answer
LongTokensInAnswer(question_, answer) ==
    {w \in LongTokens(question_) : contains(lower(answer), w)}

\* C23: the keyword component of the confidence is 0.1 x the fraction of the
\* question tokens longer than 2 characters that appear in the lower-cased
\* answer: 0.1 when each of them appears, 0 when none does.
C23_KeywordScore ==
    (op = "calculate_enhanced_confidence" /\ pc = "returned"
        /\ arg_docs # <<>>
        /\ LongTokens(question) # {}) =>
        /\ keyword_score(question, arg_answer) =
              RMul(Rat(1, 10),
                   Rat(Cardinality(LongTokensInAnswer(question, arg_answer)),
                       Cardinality(LongTokens(question))))
        /\ LongTokensInAnswer(question, arg_answer) = LongTokens(question) =>
              keyword_score(question, arg_answer) = Rat(1, 10)
        /\ LongTokensInAnswer(question, arg_answer) = {} =>
              keyword_score(question, arg_answer) = RInt(0)

\* the batch call covering text i raised
BatchFailedFor(i) ==
    \E c \in 1..Len(calls) :
        /\ calls[c].input = "batch"
        /\ calls[c].first <= i /\ i <= calls[c].last
        /\ calls[c].failed

\* the per-text call for text i raised
TextFailedFor(i) ==
    \E c \in 1..Len(calls) :
        /\ calls[c].input = "text"
        /\ calls[c].first = i
        /\ calls[c].failed

\* C25: in embed_documents a text gets the zero vector of 1536 dimensions if
\* and only if the call for its batch of 10 failed and its own per-text call
\* failed too; every other text, of a failed batch or of any other batch,
\* gets the vector the embedding service returned for it.
C25_ZeroVectorIff ==
    (op \in {"embed_documents", "add_documents"}) =>
        \A i \in 1..Len(embeddings) :
            /\ embeddings[i].zero <=> (BatchFailedFor(i) /\ TextFailedFor(i))
            /\ embeddings[i].zero => embeddings[i] = ZeroVector
            /\ embeddings[i].dim = 1536
            /\ ~embeddings[i].zero =>
                  embeddings[i] = Embedding(arg_docs[i].page_content)

\* C25 witness: the first batch failed, one of its texts failed again and got
\* the zero vector, its neighbours got their own vectors, and the second
\* batch was embedded by its batch call.
C25_Witness ==
    /\ op = "embed_documents"
    /\ pc = "returned"
    /\ Len(arg_docs) > 10
    /\ BatchFailedFor(1)
    /\ ~embeddings[1].zero
    /\ embeddings[2].zero
    /\ ~embeddings[3].zero
    /\ ~BatchFailedFor(11)
    /\ ~embeddings[11].zero

\* the names of the calls issued so far, in order
CallNames == [c \in 1..Len(calls) |-> calls[c].call]

\* the names of the generation calls issued so far, in order
GenerationCalls == SelectSeq(CallNames, LAMBDA n : n # "similarity_search")

\* C26: within one ask_* call every retrieval call comes before the answer
\* generation and at most one answer generation is issued; on success
\* ask_basic and ask_rerank have made exactly one generation call, ask_hyde
\* and ask_enhanced exactly two (HyDE expansion, then answer); when the
\* retrieval raises, no answer generation is made and no call is repeated.
C26_CallOrder ==
    op \in AskOps =>
        /\ \A c \in 1..Len(calls) :
              calls[c].call = "generate_answer" => c = Len(calls)
        /\ \A c \in 1..Len(calls) :
              (calls[c].call = "generate_answer") <=>
                  (pc = "returned" /\ c = Len(calls) /\ raised.where # "store")
        /\ \A c, e \in 1..Len(calls) : calls[c] = calls[e] => c = e
        /\ (pc = "returned" /\ raised = NoError) =>
              /\ op \in {"ask_basic", "ask_rerank"} =>
                    /\ GenerationCalls = <<"generate_answer">>
                    /\ CallNames = <<"similarity_search", "generate_answer">>
              /\ op \in {"ask_hyde", "ask_enhanced"} =>
                    /\ GenerationCalls = <<"generate_hypothetical_answer",
                                           "generate_answer">>
                    /\ CallNames = <<"generate_hypothetical_answer",
                                     "similarity_search", "similarity_search",
                                     "generate_answer">>
        /\ (pc = "returned" /\ raised.where = "store") =>
              /\ CallNames[Len(calls)] = "similarity_search"
              /\ Len(calls) <= 3

\* C26 witness: the second search of ask_enhanced raised; the method returned
\* after three calls, none of them an answer generation.
C26_Witness ==
    /\ AskReturned
    /\ op = "ask_enhanced"
    /\ raised.where = "store"
    /\ CallNames = <<"generate_hypothetical_answer", "similarity_search",
                     "similarity_search">>
    /\ result.confidence = RInt(0)

\* only the HyDE expansion failed: the searches returned and the answer
\* generation replied with a text
OnlyHydeFailed ==
    /\ op \in {"ask_hyde", "ask_enhanced"}
    /\ pc = "returned"
    /\ hyde_failed
    /\ response # None
    /\ ~response[1].none

\* the first k chunks of distinct content of the question search made with 2k
FirstUniqueOfQuestionSearch(k) ==
    SliceTo(FirstSeen([i \in 1..Min(2 * k, Len(store)) |-> StoreDoc(i)]), k)

\* C27 as stated: if only the HyDE expansion fails, the result of ask_hyde
\* and of ask_enhanced is not a failure, has confidence >= 0.1, and its
\* chunks are the first k unique results of searching the question with 2k.
C27_FallbackChunksAreRetrieved ==
    OnlyHydeFailed =>
        /\ raised = NoError
        /\ RLe(Rat(1, 10), result.confidence)
        /\ source_docs = FirstUniqueOfQuestionSearch(retrieval_k(op))

\* C27 amended: if only the HyDE expansion fails, ask_hyde and ask_enhanced
\* go on to search with the question as the hypothetical answer and return a
\* result that is not a failure and has confidence >= 0.1; the chunks
\* hyde_retrieve returns are the first k unique results of searching the
\* question with 2k; ask_hyde cites exactly these, ask_enhanced cites the
\* TOP_K of them that the lexical ranker puts first.
C27_HydeFailureFallback ==
    /\ (op \in {"ask_hyde", "ask_enhanced"} /\ hyde_failed /\ pc = "returned") =>
          /\ Len(calls) >= 2
          /\ calls[2] = SearchCall(Text(question), 2 * hyde_k)
    /\ OnlyHydeFailed =>
          /\ raised = NoError
          /\ ~escaped
          /\ RLe(Rat(1, 10), result.confidence)
          /\ hypothetical_answer = Text(question)
          /\ hyde_k = retrieval_k(op)
          /\ candidate_docs = FirstUniqueOfQuestionSearch(hyde_k)
          /\ result.source_count = Len(source_docs)
          /\ op = "ask_hyde" => source_docs = candidate_docs
          /\ op = "ask_enhanced" =>
                source_docs =
                    docs_of(simple_rerank(question, candidate_docs, Some(TOP_K)))

\* C27 witness: the HyDE expansion of ask_enhanced failed, the question
\* search returned chunks of equal content, and the ranker changed the
\* order of what was left.
C27_Witness ==
    /\ OnlyHydeFailed
    /\ op = "ask_enhanced"
    /\ raised = NoError
    /\ Len(hyde_results) > Len(FirstSeen(hyde_results))
    /\ source_docs # <<>>
    /\ source_docs # SliceTo(candidate_docs, Len(source_docs))

\* what the running request retrieves when it runs alone over the store and
\* gets the search replies it got
SoloRetrieved ==
    IF op \in {"ask_basic", "ask_rerank"}
    THEN similarity_search([i \in 1..Len(store) |-> i], Some(retrieval_k(op)))
    ELSE merge_and_dedup(hyde_results, question_results, hyde_k)

SoloSources == docs_of(rank_candidates(op, SoloRetrieved))

\* the result, response_time aside, the running request returns when it runs
\* alone and gets the replies it got
SoloValue ==
    IF raised # NoError
    THEN failure_result(op, raised.text).value
    ELSE [question |-> question,
          answer |-> response[1],
          citations |-> build_citations(SoloSources, MethodTag(op)),
          confidence |-> calculate_enhanced_confidence(
                             SoloSources, question, response[1].text,
                             MethodTag(op)),
          source_count |-> Len(SoloSources),
          retrieval_method |-> MethodTag(op)]

\* C28: of two ask_* calls under way at once over one store, in any modes
\* and with their external calls interleaved in any way, each returns the
\* result it returns alone with the same collaborator replies, every call it
\* made is about its own question, and the store and TOP_K are what they
\* were.
C28_ConcurrentRequestsIsolated ==
    other # <<>> =>
        /\ store = SharedStore
        /\ TOP_K = 1
        /\ \A c \in 1..Len(calls) :
              calls[c].query \in {Text(question), hypothetical_answer}
        /\ pc = "returned" =>
              /\ result = ("response_time" :> result.response_time) @@ SoloValue
              /\ result.question = question

\* C28 witness: ask_enhanced has returned an answer with a citation while an
\* ask_hyde call for another question, begun before that, waits in its
\* second search.
C28_Witness ==
    /\ other # <<>>
    /\ op = "ask_enhanced"
    /\ pc = "returned"
    /\ raised = NoError
    /\ result.citations # <<>>
    /\ other.op = "ask_hyde"
    /\ other.pc = "question_search"
    /\ other.question # question
    /\ Len(other.calls) = 2

\* the documents of a list
DocsIn(docs) == {docs[i] : i \in 1..Len(docs)}

\* the chunks only the original-question search returned
QuestionOnly == DocsIn(question_results) \ DocsIn(hyde_results)

\* C29: in hyde_retrieve(question, k) a chunk that only the
\* original-question search returned is in the result only when the
\* hypothetical-answer search, made with 2k, yielded fewer than k chunks of
\* distinct content; when that search yields k or more chunks of distinct
\* content the result is the first k of them and nothing else.
C29_QuestionResultsOnlyFill ==
    HydeRetrieved =>
        /\ (DocsIn(candidate_docs) \cap QuestionOnly # {}) =>
              Cardinality(ContentsOf(hyde_results)) < hyde_k
        /\ Cardinality(ContentsOf(hyde_results)) >= hyde_k =>
              /\ candidate_docs = SliceTo(FirstSeen(hyde_results), hyde_k)
              /\ DocsIn(candidate_docs) \subseteq DocsIn(hyde_results)

\* C29 witness: the four chunks of the hypothetical-answer search have one
\* content, and the result is filled up with a chunk that only the
\* original-question search returned.
C29_Witness ==
    /\ HydeRetrieved
    /\ hyde_k = 2
    /\ Len(hyde_results) = 2 * hyde_k
    /\ Cardinality(ContentsOf(hyde_results)) = 1
    /\ DocsIn(candidate_docs) \cap QuestionOnly # {}
    /\ Len(candidate_docs) = hyde_k

\* the metadata keys of a chunk
MetadataKeys(chunk) == DOMAIN chunk.metadata

\* C30: processing the same unchanged file twice yields chunks with the same
\* metadata keys both times: the chunks of a cache hit carry source_file,
\* chunk_index, total_chunks and created_at like the chunks of the cache
\* miss before it.
C30_CacheHitSameMetadataKeys ==
    \A i, j \in 1..Len(processed) :
        (i < j /\ ~processed[i].hit /\ processed[i].error = "" /\ processed[j].hit) =>
            /\ Len(processed[j].chunks) = Len(processed[i].chunks)
            /\ \A c \in 1..Len(processed[j].chunks) :
                  /\ MetadataKeys(processed[j].chunks[c]) =
                        MetadataKeys(processed[i].chunks[c])
                  /\ {"source_file", "chunk_index", "total_chunks", "created_at"}
                        \subseteq MetadataKeys(processed[j].chunks[c])

====
